---- MODULE Spec2Model ----
(***************************************************************************)
(* A model of the insurance-policy field extractor of parser.py.           *)
(*                                                                         *)
(* Text is a sequence of one-character strings.  Regular expressions are   *)
(* syntax trees interpreted by Match, a backtracking matcher with the      *)
(* priorities of Python's re module (ordered alternation, greedy and lazy  *)
(* repetition, one capturing group, leftmost search).                      *)
(***************************************************************************)
EXTENDS Integers, Sequences, FiniteSets, TLC

(***************************************************************************)
(* Characters and the str methods the parser uses                          *)
(***************************************************************************)
LowerLetters ==
  {"a","b","c","d","e","f","g","h","i","j","k","l","m",
   "n","o","p","q","r","s","t","u","v","w","x","y","z"}

UpperLetters ==
  {"A","B","C","D","E","F","G","H","I","J","K","L","M",
   "N","O","P","Q","R","S","T","U","V","W","X","Y","Z"}

Digits == {"0","1","2","3","4","5","6","7","8","9"}

Whitespace == {" ", "\t", "\n", "\r"}

LowerOf ==
  [c \in UpperLetters |->
     CASE c = "A" -> "a" [] c = "B" -> "b" [] c = "C" -> "c" [] c = "D" -> "d"
       [] c = "E" -> "e" [] c = "F" -> "f" [] c = "G" -> "g" [] c = "H" -> "h"
       [] c = "I" -> "i" [] c = "J" -> "j" [] c = "K" -> "k" [] c = "L" -> "l"
       [] c = "M" -> "m" [] c = "N" -> "n" [] c = "O" -> "o" [] c = "P" -> "p"
       [] c = "Q" -> "q" [] c = "R" -> "r" [] c = "S" -> "s" [] c = "T" -> "t"
       [] c = "U" -> "u" [] c = "V" -> "v" [] c = "W" -> "w" [] c = "X" -> "x"
       [] c = "Y" -> "y" [] c = "Z" -> "z"]

\* re.IGNORECASE folds a character before it is compared
Fold(c) == IF c \in UpperLetters THEN LowerOf[c] ELSE c

\* str.lower()
StrLower(s) == [k \in 1..Len(s) |-> Fold(s[k])]

Min(S) == CHOOSE p \in S : \A q \in S : p <= q
Max(S) == CHOOSE p \in S : \A q \in S : p >= q

\* the members of a set of positions, in increasing order
Sorted(S) == [j \in 1..Cardinality(S) |-> CHOOSE p \in S : Cardinality({q \in S : q < p}) = j - 1]

\* the characters of s at the positions of S, in order
Keep(s, S) == LET idx == Sorted(S) IN [j \in 1..Len(idx) |-> s[idx[j]]]

\* str.replace(old, new) for a one-character old and a new of at most one character
StrReplace(s, old, new) ==
  IF new = <<>> THEN Keep(s, {k \in 1..Len(s) : s[k] # old})
  ELSE [k \in 1..Len(s) |-> IF s[k] = old THEN new[1] ELSE s[k]]

\* str.strip()
StrStrip(s) ==
  LET solid == {k \in 1..Len(s) : s[k] \notin Whitespace}
  IN IF solid = {} THEN <<>> ELSE SubSeq(s, Min(solid), Max(solid))

\* str.split(sep) for a one-character sep: the list of pieces, empty ones included
StrSplitOn(s, sep) ==
  LET cuts == Sorted({k \in 1..Len(s) : s[k] = sep})
      n == Len(cuts)
  IN [k \in 1..(n + 1) |->
        SubSeq(s, IF k = 1 THEN 1 ELSE cuts[k - 1] + 1,
                  IF k = n + 1 THEN Len(s) ELSE cuts[k] - 1)]

\* str.split() without argument: the maximal runs of non-whitespace
StrSplitWords(s) ==
  LET solid(k) == k >= 1 /\ k <= Len(s) /\ s[k] \notin Whitespace
      starts == Sorted({k \in 1..Len(s) : solid(k) /\ ~solid(k - 1)})
      ends == Sorted({k \in 1..Len(s) : solid(k) /\ ~solid(k + 1)})
  IN [k \in 1..Len(starts) |-> SubSeq(s, starts[k], ends[k])]

\* sep.join(parts)
RECURSIVE StrJoin(_, _)
StrJoin(sep, parts) ==
  IF Len(parts) = 0 THEN <<>>
  ELSE IF Len(parts) = 1 THEN parts[1]
  ELSE parts[1] \o sep \o StrJoin(sep, Tail(parts))

\* re.sub(r'\n{3,}', '\n\n', s): a newline is dropped when two newlines precede it
CollapseNewlines(s) ==
  Keep(s, {k \in 1..Len(s) :
             ~(s[k] = "\n" /\ k > 2 /\ s[k - 1] = "\n" /\ s[k - 2] = "\n")})

\* InsuranceParser.normalize_text
normalize_text(text) ==
  LET lines == StrSplitOn(text, "\n")
      cleaned_lines == [k \in 1..Len(lines) |->
                          StrJoin(<<" ">>, StrSplitWords(StrStrip(lines[k])))]
  IN CollapseNewlines(StrJoin(<<"\n">>, cleaned_lines))

(***************************************************************************)
(* Regular expressions: syntax trees                                       *)
(***************************************************************************)
\* one character whose folded form is in cs: a literal or a class [...]
Ch(cs) == [op |-> "set", cs |-> cs]

\* one character whose folded form is not in cs: '.' is NotCh({"\n"})
NotCh(cs) == [op |-> "not", cs |-> cs]

Cat(xs) == [op |-> "cat", xs |-> xs]

\* a literal string, given folded
Lit(s) == [op |-> "lit", s |-> s]

\* a|b|c, tried left to right
Alt(xs) == [op |-> "alt", xs |-> xs]

\* x? (greedy)
Opt(x) == [op |-> "opt", x |-> x]

\* x* and x+ (greedy), x*? and x+? (lazy), for a one-character x (Ch or NotCh)
Star(x) == [op |-> "rep", x |-> x, min |-> 0, lazy |-> FALSE]
Plus(x) == [op |-> "rep", x |-> x, min |-> 1, lazy |-> FALSE]
LazyStar(x) == [op |-> "rep", x |-> x, min |-> 0, lazy |-> TRUE]
LazyPlus(x) == [op |-> "rep", x |-> x, min |-> 1, lazy |-> TRUE]

\* x{n}
Times(x, n) == Cat([k \in 1..n |-> x])

\* ( x ): the capturing group
Group(x) == [op |-> "grp", x |-> x]

\* $ without re.MULTILINE, \Z, and (?= x )
EndOfLine == [op |-> "eol"]
EndOfString == [op |-> "eos"]
LookAhead(x) == [op |-> "look", x |-> x]

\* \s and \d
WS == Ch(Whitespace)
Digit == Ch(Digits)

\* the number of capturing groups of a pattern (re.Pattern.groups)
RECURSIVE Groups(_)
RECURSIVE GroupsOfAll(_)
GroupsOfAll(xs) == IF xs = <<>> THEN 0 ELSE Groups(Head(xs)) + GroupsOfAll(Tail(xs))
Groups(x) ==
  CASE x.op = "grp" -> 1 + Groups(x.x)
    [] x.op \in {"cat", "alt"} -> GroupsOfAll(x.xs)
    [] x.op \in {"opt", "look"} -> Groups(x.x)
    [] OTHER -> 0

(***************************************************************************)
(* The matcher.  todo is the sequence of nodes still to match at position  *)
(* i of text t; gs and ge are the start and end of group 1 so far.  The    *)
(* result is the first match in backtracking order, or NoMatch.            *)
(***************************************************************************)
NoMatch == [ok |-> FALSE, start |-> 0, end |-> 0, gs |-> 0, ge |-> 0]

\* does character c match the one-character node x
Accepts(x, c) ==
  IF x.op = "set" THEN Fold(c) \in x.cs ELSE Fold(c) \notin x.cs

\* the length of the longest run of characters from position i that x accepts
Run(t, x, i) ==
  Min({n \in 0..(Len(t) + 1 - i) : n = Len(t) + 1 - i \/ ~Accepts(x, t[i + n])})

\* of the tries <<rank, result>>, the successful one of lowest rank
First(tries) ==
  LET good == {e \in tries : e[2].ok}
  IN IF good = {} THEN NoMatch
     ELSE (CHOOSE e \in good : \A o \in good : e[1] <= o[1])[2]

RECURSIVE Match(_, _, _, _, _)
Match(t, todo, i, gs, ge) ==
  IF Len(todo) = 0
  THEN [ok |-> TRUE, start |-> 0, end |-> i, gs |-> gs, ge |-> ge]
  ELSE
    LET x == Head(todo)
        rest == Tail(todo)
    IN CASE x.op = "lit" ->
              IF /\ i + Len(x.s) - 1 <= Len(t)
                 /\ \A k \in 1..Len(x.s) : Fold(t[i + k - 1]) = x.s[k]
              THEN Match(t, rest, i + Len(x.s), gs, ge) ELSE NoMatch
         [] x.op \in {"set", "not"} ->
              IF i <= Len(t) /\ Accepts(x, t[i])
              THEN Match(t, rest, i + 1, gs, ge) ELSE NoMatch
         [] x.op = "cat" -> Match(t, x.xs \o rest, i, gs, ge)
         [] x.op = "alt" ->
              First({<<k, Match(t, <<x.xs[k]>> \o rest, i, gs, ge)>> :
                       k \in 1..Len(x.xs)})
         [] x.op = "opt" ->
              First({<<1, Match(t, <<x.x>> \o rest, i, gs, ge)>>,
                     <<2, Match(t, rest, i, gs, ge)>>})
         [] x.op = "rep" ->
              LET run == Run(t, x.x, i)
              IN First({<<IF x.lazy THEN n ELSE run - n,
                          Match(t, rest, i + n, gs, ge)>> : n \in x.min..run})
         [] x.op = "grp" -> Match(t, <<x.x, [op |-> "end"]>> \o rest, i, i, ge)
         [] x.op = "end" -> Match(t, rest, i, gs, i)
         [] x.op = "eol" ->
              IF i = Len(t) + 1 \/ (i = Len(t) /\ t[i] = "\n")
              THEN Match(t, rest, i, gs, ge) ELSE NoMatch
         [] x.op = "eos" ->
              IF i = Len(t) + 1 THEN Match(t, rest, i, gs, ge) ELSE NoMatch
         [] x.op = "look" ->
              IF Match(t, <<x.x>>, i, gs, ge).ok
              THEN Match(t, rest, i, gs, ge) ELSE NoMatch

\* re.search from position p on: the match with the leftmost start
SearchFrom(t, pattern, p) ==
  First({<<q, [Match(t, <<pattern>>, q, 0, 0) EXCEPT !.start = q]>> :
           q \in p..(Len(t) + 1)})

\* re.search(pattern, t, re.IGNORECASE)
Search(t, pattern) == SearchFrom(t, pattern, 1)

\* match.group(1) of a match of a pattern that has the group
Group1(t, m) == SubSeq(t, m.gs, m.ge - 1)

\* re.findall of a one-group pattern without empty matches: the group of
\* each successive non-overlapping match
RECURSIVE FindAllFrom(_, _, _)
FindAllFrom(t, pattern, p) ==
  LET m == SearchFrom(t, pattern, p)
  IN IF ~m.ok THEN <<>>
     ELSE <<Group1(t, m)>> \o FindAllFrom(t, pattern, IF m.end > m.start THEN m.end ELSE m.end + 1)

FindAll(t, pattern) == FindAllFrom(t, pattern, 1)

(***************************************************************************)
(* The module-level pattern fragments                                      *)
(***************************************************************************)
\* (?:USD|INR|\$|Rs\.?)?
CURRENCY_SYMBOLS ==
  Opt(Alt(<<Lit(<<"u","s","d">>), Lit(<<"i","n","r">>), Ch({"$"}),
            Cat(<<Lit(<<"r","s">>), Opt(Ch({"."}))>>)>>))

\* [\d,]+(?:\.\d{2})?  (without its group)
NumericBody ==
  Cat(<<Plus(Ch(Digits \cup {","})), Opt(Cat(<<Ch({"."}), Times(Digit, 2)>>))>>)

\* ([\d,]+(?:\.\d{2})?)
NUMERIC_PATTERN == Group(NumericBody)

\* (\d{2}[/-]\d{2}[/-]\d{4})
DATE_PATTERN ==
  Group(Cat(<<Times(Digit, 2), Ch({"/", "-"}), Times(Digit, 2), Ch({"/", "-"}),
              Times(Digit, 4)>>))

\* \s*:?\s*
Colon == Cat(<<Star(WS), Opt(Ch({":"})), Star(WS)>>)

\* \s*:?\s*{CURRENCY_SYMBOLS}\s*{NUMERIC_PATTERN}
Amount == Cat(<<Colon, CURRENCY_SYMBOLS, Star(WS), NUMERIC_PATTERN>>)

\* \s*:?\s*{DATE_PATTERN}
Date == Cat(<<Colon, DATE_PATTERN>>)

\* (?:a|b|c) of literal words
Words(ws) == Alt([k \in 1..Len(ws) |-> Lit(ws[k])])

(***************************************************************************)
(* The pattern list of each extraction unit, in the order of the source    *)
(***************************************************************************)
policy_number_patterns ==
  << Cat(<<Lit(<<"p","o","l","i","c","y">>), Plus(WS),
           Alt(<<Lit(<<"n","u","m","b","e","r">>), Cat(<<Lit(<<"n","o">>), Opt(Ch({"."}))>>), Ch({"#"})>>),
           Colon,
           Group(Cat(<<Ch(LowerLetters \cup Digits),
                       Plus(Ch(LowerLetters \cup Digits \cup {"-", "/", "\\"}))>>))>>) >>

policyholder_patterns ==
  << Cat(<<Lit(<<"p","o","l","i","c","y","h","o","l","d","e","r">>), Opt(Cat(<<Plus(WS), Lit(<<"n","a","m","e">>)>>)), Ch({":"}),
           Star(WS), Group(LazyPlus(Ch(LowerLetters \cup Whitespace))),
           Alt(<<Ch({"\n"}), EndOfLine>>)>>) >>

policy_type_patterns ==
  << Cat(<<Lit(<<"p","o","l","i","c","y">>), Plus(WS), Lit(<<"t","y","p","e">>), Ch({":"}),
           Star(WS), Group(LazyPlus(Ch(LowerLetters \cup Whitespace))),
           Alt(<<Ch({"\n"}), EndOfLine>>)>>) >>

effective_date_patterns ==
  << Cat(<<Words(<<<<"e","f","f","e","c","t","i","v","e">>, <<"s","t","a","r","t">>, <<"c","o","m","m","e","n","c","e","m","e","n","t">>, <<"f","r","o","m">>>>),
           Plus(WS), Lit(<<"d","a","t","e">>), Date>>),
     Cat(<<Lit(<<"p","o","l","i","c","y">>), Plus(WS), Words(<<<<"s","t","a","r","t">>, <<"e","f","f","e","c","t","i","v","e">>>>),
           Plus(WS), Lit(<<"d","a","t","e">>), Date>>),
     Cat(<<Words(<<<<"v","a","l","i","d">>, <<"c","o","v","e","r","a","g","e">>>>), Plus(WS), Lit(<<"f","r","o","m">>), Date>>) >>

expiration_date_patterns ==
  << Cat(<<Words(<<<<"e","x","p","i","r","a","t","i","o","n">>, <<"e","x","p","i","r","y">>, <<"e","n","d">>, <<"t","o">>>>),
           Plus(WS), Lit(<<"d","a","t","e">>), Date>>),
     Cat(<<Lit(<<"p","o","l","i","c","y">>), Plus(WS), Words(<<<<"e","n","d">>, <<"e","x","p","i","r","y">>>>),
           Plus(WS), Lit(<<"d","a","t","e">>), Date>>),
     Cat(<<Words(<<<<"v","a","l","i","d">>, <<"c","o","v","e","r","a","g","e">>>>), Plus(WS),
           Words(<<<<"u","n","t","i","l">>, <<"t","o">>>>), Date>>) >>

coverage_amount_patterns ==
  << Cat(<<Words(<<<<"c","o","v","e","r","a","g","e">>, <<"s","u","m">>>>), Plus(WS),
           Words(<<<<"a","m","o","u","n","t">>, <<"i","n","s","u","r","e","d">>>>), Amount>>),
     Cat(<<Lit(<<"s","u","m">>), Plus(WS), Lit(<<"i","n","s","u","r","e","d">>), Amount>>),
     Cat(<<Lit(<<"i","n","s","u","r","e","d">>), Plus(WS), Words(<<<<"a","m","o","u","n","t">>, <<"v","a","l","u","e">>>>), Amount>>) >>

premium_patterns ==
  << Cat(<<Words(<<<<"b","a","s","e">>, <<"b","a","s","i","c">>, <<"n","e","t">>>>), Plus(WS), Lit(<<"p","r","e","m","i","u","m">>), Amount>>),
     Cat(<<Lit(<<"p","r","e","m","i","u","m">>), Amount>>),
     Cat(<<Words(<<<<"m","o","n","t","h","l","y">>, <<"a","n","n","u","a","l">>, <<"y","e","a","r","l","y">>>>), Plus(WS),
           Lit(<<"p","r","e","m","i","u","m">>), Amount>>) >>

total_premium_patterns ==
  << Cat(<<Lit(<<"t","o","t","a","l">>), Plus(WS), Lit(<<"p","r","e","m","i","u","m">>), Amount>>),
     Cat(<<Words(<<<<"g","r","o","s","s">>, <<"f","i","n","a","l">>>>), Plus(WS), Lit(<<"p","r","e","m","i","u","m">>), Amount>>),
     Cat(<<Lit(<<"p","r","e","m","i","u","m">>), Plus(WS), Words(<<<<"t","o","t","a","l">>, <<"a","m","o","u","n","t">>>>), Amount>>) >>

taxes_patterns ==
  << Cat(<<Alt(<<Lit(<<"g","s","t">>), Lit(<<"t","a","x">>),
                 Cat(<<Lit(<<"s","e","r","v","i","c","e">>), Plus(WS), Lit(<<"t","a","x">>)>>)>>),
           Star(WS), Opt(Lit(<<"a","m","o","u","n","t">>)), Amount>>),
     Cat(<<Lit(<<"t","a","x">>), Opt(Lit(<<"e","s">>)), Amount>>),
     Cat(<<Words(<<<<"p","o","l","i","c","y">>, <<"i","n","s","u","r","a","n","c","e">>>>), Plus(WS), Lit(<<"t","a","x">>), Amount>>),
     Cat(<<Lit(<<"g","s","t">>), Star(WS), Opt(Ch({"@"})), Star(WS), Plus(Digit),
           Opt(Ch({"%"})), Amount>>) >>

fees_patterns ==
  << Cat(<<Words(<<<<"a","d","m","i","n","i","s","t","r","a","t","i","v","e">>, <<"p","r","o","c","e","s","s","i","n","g">>, <<"s","e","r","v","i","c","e">>>>), Plus(WS),
           Lit(<<"f","e","e">>), Amount>>),
     Cat(<<Lit(<<"f","e","e">>), Opt(Lit(<<"s">>)), Amount>>),
     Cat(<<Words(<<<<"s","t","a","m","p">>, <<"p","o","l","i","c","y">>>>), Plus(WS), Lit(<<"f","e","e">>), Amount>>) >>

deductible_patterns ==
  << Cat(<<Lit(<<"d","e","d","u","c","t","i","b","l","e">>), Star(WS), Opt(Lit(<<"a","m","o","u","n","t">>)), Amount>>),
     Cat(<<Words(<<<<"s","t","a","n","d","a","r","d">>, <<"b","a","s","i","c">>>>), Plus(WS), Lit(<<"d","e","d","u","c","t","i","b","l","e">>), Amount>>),
     Cat(<<Words(<<<<"e","x","c","e","s","s">>, <<"c","o","-","p","a","y","m","e","n","t">>>>), Amount>>) >>

\* the third pattern has no capturing group
payment_frequency_patterns ==
  << Cat(<<Lit(<<"p","a","y","m","e","n","t">>), Plus(WS), Lit(<<"f","r","e","q","u","e","n","c","y">>), Colon,
           Group(Alt(<<Lit(<<"m","o","n","t","h","l","y">>), Lit(<<"q","u","a","r","t","e","r","l","y">>), Lit(<<"a","n","n","u","a","l">>),
                       Lit(<<"y","e","a","r","l","y">>),
                       Cat(<<Lit(<<"b","i">>), Opt(Ch({"-"})), Lit(<<"a","n","n","u","a","l">>)>>),
                       Cat(<<Lit(<<"s","e","m","i">>), Opt(Ch({"-"})), Lit(<<"a","n","n","u","a","l">>)>>)>>))>>),
     Cat(<<Lit(<<"b","i","l","l","e","d">>), Plus(WS),
           Group(Words(<<<<"m","o","n","t","h","l","y">>, <<"q","u","a","r","t","e","r","l","y">>, <<"a","n","n","u","a","l">>, <<"y","e","a","r","l","y">>>>))>>),
     Cat(<<Words(<<<<"m","o","n","t","h","l","y">>, <<"q","u","a","r","t","e","r","l","y">>, <<"a","n","n","u","a","l">>, <<"y","e","a","r","l","y">>>>), Plus(WS),
           Words(<<<<"p","a","y","m","e","n","t">>, <<"b","i","l","l","i","n","g">>>>)>>) >>

copay_patterns ==
  << Cat(<<Lit(<<"c","o">>), Opt(Ch({"-"})), Lit(<<"p","a","y">>), Colon, Opt(Ch({"$"})),
           NUMERIC_PATTERN>>),
     Cat(<<Lit(<<"c","o","p","a","y","m","e","n","t">>), Colon, Opt(Ch({"$"})), NUMERIC_PATTERN>>) >>

ScalarFields ==
  {"policy_number", "policyholder", "policy_type", "effective_date",
   "expiration_date", "coverage_amount", "premium", "total_premium", "taxes",
   "fees", "deductible", "payment_frequency", "copay"}

NumericFields ==
  {"coverage_amount", "premium", "total_premium", "taxes", "fees", "deductible", "copay"}

\* the pattern list that each unit passes to _extract_with_patterns
Patterns ==
  [f \in ScalarFields |->
     CASE f = "policy_number" -> policy_number_patterns
       [] f = "policyholder" -> policyholder_patterns
       [] f = "policy_type" -> policy_type_patterns
       [] f = "effective_date" -> effective_date_patterns
       [] f = "expiration_date" -> expiration_date_patterns
       [] f = "coverage_amount" -> coverage_amount_patterns
       [] f = "premium" -> premium_patterns
       [] f = "total_premium" -> total_premium_patterns
       [] f = "taxes" -> taxes_patterns
       [] f = "fees" -> fees_patterns
       [] f = "deductible" -> deductible_patterns
       [] f = "payment_frequency" -> payment_frequency_patterns
       [] f = "copay" -> copay_patterns]

(***************************************************************************)
(* The documents of the model: at most MaxFragments of the fragments of a  *)
(* policy document, in the order of the list, one per line block           *)
(***************************************************************************)
MaxFragments == 2

\* the readings of the clock (datetime.now())
MaxClock == 2

Fragments ==
  << <<"P","o","l","i","c","y"," ","N","o",":"," ","A","-","1","\n","P","o","l","i","c","y","h","o","l","d","e","r",":"," "," ","J","o","h","n"," ","D","o","e"," ","\n","E","f","f","e","c","t","i","v","e"," ","D","a","t","e",":"," ","0","1","-","0","1","-","2","0","2","4","\n","E","x","p","i","r","a","t","i","o","n"," ","D","a","t","e",":"," ","0","1","/","0","1","/","2","0","2","5">>,
     <<"E","f","f","e","c","t","i","v","e"," ","D","a","t","e",":"," ","0","1","-","0","1","-","2","0","2","4">>,
     <<"P","r","e","m","i","u","m",":"," ","$","1",",","2","0","0",".","0","0">>,
     <<"P","r","e","m","i","u","m",":"," ",",">>,
     <<"B","a","s","e"," ","P","r","e","m","i","u","m",":"," ","2","0","0">>,
     <<"B","i","l","l","e","d"," ","Y","E","A","R","L","Y">>,
     <<"Q","u","a","r","t","e","r","l","y"," ","B","i","l","l","i","n","g">>,
     <<"C","o","v","e","r","a","g","e"," ","D","e","t","a","i","l","s",":">>,
     <<>>,
     <<" ","-"," "," ","F","i","r","e","\n","T","h","e","f","t"," ","-"," ","f","l","o","o","d">> >>

\* the fragments at the positions of picks, in the order of the list
Pick(picks) == LET idx == Sorted(picks) IN [j \in 1..Len(idx) |-> Fragments[idx[j]]]

Docs ==
  {StrJoin(<<"\n">>, Pick(picks)) :
     picks \in {P \in SUBSET (1..Len(Fragments)) : Cardinality(P) <= MaxFragments}}

\* the documents with their normalized texts
NormalizedDocs == {[text |-> d, normalized_text |-> normalize_text(d)] : d \in Docs}

Texts == {n.normalized_text : n \in NormalizedDocs}
(***************************************************************************)
(* Optional values: Python's None and a present value                      *)
(***************************************************************************)
None == <<>>
Some(v) == <<v>>

\* Python truthiness of an Optional[str]: None and "" are false
Truthy(o) == o # None /\ o[1] # <<>>

(***************************************************************************)
(* InsuranceParser._extract_with_patterns.  The result records whether     *)
(* match.group(1) raised IndexError (the pattern has no group 1).          *)
(***************************************************************************)
\* re.search(pattern, text, re.IGNORECASE) for every normalized text of the
\* model and every pattern of every unit, computed once
re_search ==
  [text \in Texts |->
     [f \in ScalarFields |->
        [k \in 1..Len(Patterns[f]) |-> Search(text, Patterns[f][k])]]]

\* the loop over the pattern list of field f, from its k-th pattern on
RECURSIVE ExtractFrom(_, _, _, _)
ExtractFrom(text, f, clean_numeric, k) ==
  IF k > Len(Patterns[f]) THEN [raised |-> FALSE, val |-> None]
  ELSE LET match == re_search[text][f][k]
       IN IF match.ok
          THEN IF Groups(Patterns[f][k]) < 1 THEN [raised |-> TRUE, val |-> None]
               ELSE LET extracted_value == Group1(text, match)
                        cleaned == IF clean_numeric
                                   THEN StrReplace(extracted_value, ",", <<>>)
                                   ELSE extracted_value
                    IN [raised |-> FALSE, val |-> Some(StrStrip(cleaned))]
          ELSE ExtractFrom(text, f, clean_numeric, k + 1)

\* a deviation from the loop: the pattern whose match starts first in the text
\* wins, whatever its place in the list
extract_leftmost_match(text, f, clean_numeric) ==
  LET hits == {k \in 1..Len(Patterns[f]) : re_search[text][f][k].ok}
      first == CHOOSE k \in hits : \A j \in hits :
                 \/ re_search[text][f][k].start < re_search[text][f][j].start
                 \/ re_search[text][f][k].start = re_search[text][f][j].start /\ k <= j
  IN IF hits = {} THEN [raised |-> FALSE, val |-> None]
     ELSE ExtractFrom(text, f, clean_numeric, first)

extract_with_patterns(text, f, clean_numeric) ==
  ExtractFrom(text, f, clean_numeric, 1)

\* try: return ... except Exception: return None
OrNone(r) == IF r.raised THEN None ELSE r.val

(***************************************************************************)
(* The extraction units; text is self.normalized_text                      *)
(***************************************************************************)
extract_policy_number(text) ==
  OrNone(extract_with_patterns(text, "policy_number", FALSE))

extract_policyholder(text) ==
  OrNone(extract_with_patterns(text, "policyholder", FALSE))

extract_policy_type(text) ==
  OrNone(extract_with_patterns(text, "policy_type", FALSE))

extract_effective_date(text) ==
  LET r == extract_with_patterns(text, "effective_date", FALSE)
  IN IF r.raised THEN None
     ELSE IF Truthy(r.val) THEN Some(StrReplace(r.val[1], "-", <<"/">>)) ELSE None

extract_expiration_date(text) ==
  LET r == extract_with_patterns(text, "expiration_date", FALSE)
  IN IF r.raised THEN None
     ELSE IF Truthy(r.val) THEN Some(StrReplace(r.val[1], "-", <<"/">>)) ELSE None

extract_coverage_amount(text) ==
  OrNone(extract_with_patterns(text, "coverage_amount", TRUE))

extract_premium(text) ==
  OrNone(extract_with_patterns(text, "premium", TRUE))

extract_total_premium(text) ==
  OrNone(extract_with_patterns(text, "total_premium", TRUE))

extract_taxes(text) ==
  OrNone(extract_with_patterns(text, "taxes", TRUE))

extract_fees(text) ==
  OrNone(extract_with_patterns(text, "fees", TRUE))

extract_deductible(text) ==
  OrNone(extract_with_patterns(text, "deductible", TRUE))

extract_payment_frequency(text) ==
  LET r == extract_with_patterns(text, "payment_frequency", FALSE)
  IN IF r.raised THEN None
     ELSE IF Truthy(r.val) THEN Some(StrLower(r.val[1])) ELSE None

extract_copay(text) ==
  OrNone(extract_with_patterns(text, "copay", TRUE))

\* Coverage Details:(.*?)(?=\n\n|\Z)  with re.DOTALL | re.IGNORECASE
coverage_section_pattern ==
  Cat(<<Lit(<<"c","o","v","e","r","a","g","e"," ","d","e","t","a","i","l","s",":">>), Group(LazyStar(NotCh({}))),
        LookAhead(Alt(<<Lit(<<"\n","\n">>), EndOfString>>))>>)

\* -\s*(.+)
coverage_item_pattern ==
  Cat(<<Ch({"-"}), Star(WS), Group(Plus(NotCh({"\n"})))>>)

\* text is self.raw_text; the result is a list of strings
extract_coverage_details(text) ==
  LET section_match == Search(text, coverage_section_pattern)
  IN IF section_match.ok
     THEN LET section_content == Group1(text, section_match)
              items == FindAll(section_content, coverage_item_pattern)
          IN [k \in 1..Len(items) |-> StrStrip(items[k])]
     ELSE <<>>

(***************************************************************************)
(* Records (Python dicts): functions from keys to optional values          *)
(***************************************************************************)
EmptyDict == [k \in {} |-> None]

\* dict.get(key)
Get(d, key) == IF key \in DOMAIN d THEN d[key] ELSE None

FieldKeys == ScalarFields \cup {"coverage_details", "parsed_at"}

\* InsuranceParser.get_default_structure
get_default_structure == [k \in FieldKeys |-> None]

\* the thirteen scalar entries and coverage_details of the dict literal of
\* parse(), for self.normalized_text and self.raw_text
ExtractFields(normalized_text, raw_text) ==
  [policy_number     |-> extract_policy_number(normalized_text),
   policyholder      |-> extract_policyholder(normalized_text),
   policy_type       |-> extract_policy_type(normalized_text),
   effective_date    |-> extract_effective_date(normalized_text),
   expiration_date   |-> extract_expiration_date(normalized_text),
   coverage_amount   |-> extract_coverage_amount(normalized_text),
   premium           |-> extract_premium(normalized_text),
   total_premium     |-> extract_total_premium(normalized_text),
   taxes             |-> extract_taxes(normalized_text),
   fees              |-> extract_fees(normalized_text),
   deductible        |-> extract_deductible(normalized_text),
   payment_frequency |-> extract_payment_frequency(normalized_text),
   copay             |-> extract_copay(normalized_text),
   coverage_details  |-> Some(extract_coverage_details(raw_text))]

\* a file of the model: its text and, computed once per file, what
\* normalize_text makes of the text and what the extraction units return for it
Files ==
  {[text |-> n.text, normalized_text |-> n.normalized_text,
    fields |-> ExtractFields(n.normalized_text, n.text)] : n \in NormalizedDocs}

\* the dict literal of parse(): the extracted fields and the timestamp
ExtractRecord(fields, now) ==
  [k \in FieldKeys |-> IF k = "parsed_at" THEN Some(now) ELSE fields[k]]

\* InsuranceParser.validate_parsed_data
validate_parsed_data(parsed_data) ==
  LET has_policy_number == Get(parsed_data, "policy_number") # None
      has_policyholder == Get(parsed_data, "policyholder") # None
      has_dates == /\ Get(parsed_data, "effective_date") # None
                   /\ Get(parsed_data, "expiration_date") # None
      has_financial_data == \/ Truthy(Get(parsed_data, "premium"))
                            \/ Truthy(Get(parsed_data, "coverage_amount"))
                            \/ Truthy(Get(parsed_data, "total_premium"))
  IN [has_policy_number  |-> has_policy_number,
      has_policyholder   |-> has_policyholder,
      has_dates          |-> has_dates,
      has_financial_data |-> has_financial_data,
      is_complete        |-> /\ has_policy_number /\ has_policyholder
                             /\ has_dates /\ has_financial_data]

(***************************************************************************)
(* Text acquisition                                                        *)
(***************************************************************************)
Suffixes == {".txt", ".pdf", ".docx"}

\* what opening the file does: it is read, it does not exist, the process may
\* not read it, or its bytes cannot be decoded (UTF-8, or the PDF structure)
FileConditions == {"readable", "missing", "denied", "undecodable"}

Raise(exc) == [raised |-> exc, val |-> None]
Return(v) == [raised |-> "none", val |-> v]

OpenAndRead(cond, content, decodeError) ==
  CASE cond = "missing" -> Raise("FileNotFoundError")
    [] cond = "denied" -> Raise("PermissionError")
    [] cond = "undecodable" -> Raise(decodeError)
    [] OTHER -> Return(content)

\* extract_text_from_file
extract_text_from_file(suffix, pdf_support, cond, content) ==
  IF suffix = ".pdf"
  THEN IF ~pdf_support THEN Raise("ImportError")
       ELSE OpenAndRead(cond, content, "PDFSyntaxError")
  ELSE IF suffix = ".txt" THEN OpenAndRead(cond, content, "UnicodeDecodeError")
  ELSE Raise("ValueError")

(***************************************************************************)
(* The InsuranceParser instance                                            *)
(***************************************************************************)
\* InsuranceParser.__init__
NewParser(file_path) ==
  [file_path |-> file_path, raw_text |-> <<>>, normalized_text |-> <<>>,
   parsed_data |-> EmptyDict]

\* InsuranceParser.read_document: the exception raised, the value returned
\* and the instance afterwards; content is the file, r.val what was read of it
read_document(self, pdf_support, cond, content) ==
  LET r == extract_text_from_file(self.file_path, pdf_support, cond, content)
  IN IF r.raised \in {"FileNotFoundError", "PermissionError", "ImportError"}
     THEN [raised |-> r.raised, val |-> None, self |-> self]
     ELSE IF r.raised # "none"
     THEN [raised |-> "Exception", val |-> None, self |-> self]
     ELSE [raised |-> "none", val |-> Some(r.val.text),
           self |-> [self EXCEPT !.raw_text = r.val.text,
                                 !.normalized_text = r.val.normalized_text]]

\* a deviation from parse: the exception of read_document is not caught
parse_without_try(self, pdf_support, cond, content, now) ==
  LET r == read_document(self, pdf_support, cond, content)
  IN IF r.raised # "none"
     THEN [raised |-> r.raised, val |-> None, self |-> self, acquired |-> FALSE]
     ELSE LET record == ExtractRecord(content.fields, now)
          IN [raised |-> "none", val |-> record,
              self |-> [r.self EXCEPT !.parsed_data = record], acquired |-> TRUE]

\* InsuranceParser.parse: the value returned, the instance afterwards, and
\* whether the text was acquired; content.fields is what the units return for
\* the raw_text and normalized_text read_document has just set
parse(self, pdf_support, cond, content, now) ==
  LET r == read_document(self, pdf_support, cond, content)
  IN IF r.raised # "none"
     THEN [raised |-> "none", val |-> get_default_structure, self |-> self,
           acquired |-> FALSE]
     ELSE LET record == ExtractRecord(content.fields, now)
          IN [raised |-> "none", val |-> record,
              self |-> [r.self EXCEPT !.parsed_data = record], acquired |-> TRUE]

\* what open(output_path, 'w') does
WriteConditions == {"writable", "denied", "no_directory"}

\* InsuranceParser.save_to_json: the exception raised and the output file afterwards
save_to_json(self, cond, file) ==
  CASE cond = "denied" -> [raised |-> "PermissionError", file |-> file]
    [] cond = "no_directory" -> [raised |-> "Exception", file |-> file]
    [] OTHER -> [raised |-> "none", file |-> Some(self.parsed_data)]

\* InsuranceParser.export_to_json
export_to_json(self, cond, file) == save_to_json(self, cond, file)

\* a deviation from main: a run whose document could not be read exits with 1
main_strict(pdf_support, cond, content, now, wcond, file) ==
  LET parser == NewParser(".pdf")
      p == parse(parser, pdf_support, cond, content, now)
      e == export_to_json(p.self, wcond, file)
  IN [status |-> IF ~p.acquired \/ e.raised # "none" THEN 1 ELSE 0,
      extracted_data |-> p.val, file |-> e.file]

\* main: the exit status, the record parse() returned to it and the output
\* file afterwards
main(pdf_support, cond, content, now, wcond, file) ==
  LET parser == NewParser(".pdf")
      p == parse(parser, pdf_support, cond, content, now)
      e == export_to_json(p.self, wcond, file)
  IN [status |-> IF p.raised # "none" \/ e.raised # "none" THEN 1 ELSE 0,
      extracted_data |-> p.val, file |-> e.file]

(***************************************************************************)
(* State                                                                   *)
(***************************************************************************)
VARIABLES
  PDF_SUPPORT,   \* the module-level flag set by the import of pdfplumber
  document,      \* the input document on disk, a member of Files
  self,          \* the InsuranceParser instance
  output_file,   \* the JSON object in the output file, None before any save
  last           \* the last call: its name, what it raised and what it returned

vars == <<PDF_SUPPORT, document, self, output_file, last>>

\* the process has not exited: main() is the whole run of the script
\* (exit(main())), the methods are called by a client of the class
Running == last.op # "main"

Init ==
  /\ document \in Files
  /\ PDF_SUPPORT \in BOOLEAN
  /\ self \in {NewParser(p) : p \in Suffixes}
  /\ output_file = None
  /\ last = [op |-> "__init__", raised |-> "none"]

\* parser.read_document()
ReadDocument(cond) ==
  LET r == read_document(self, PDF_SUPPORT, cond, document)
  IN /\ Running
     /\ self' = r.self
     /\ last' = [op |-> "read_document", raised |-> r.raised, cond |-> cond]
     /\ UNCHANGED <<PDF_SUPPORT, document, output_file>>

\* parser.parse()
Parse(cond, now) ==
  LET r == parse(self, PDF_SUPPORT, cond, document, now)
  IN /\ Running
     /\ self' = r.self
     /\ last' = [op |-> "parse", raised |-> r.raised, cond |-> cond, val |-> r.val]
     /\ UNCHANGED <<PDF_SUPPORT, document, output_file>>

\* parser.validate_parsed_data()
ValidateParsedData ==
  /\ Running
  /\ last' = [op |-> "validate_parsed_data", raised |-> "none",
              val |-> validate_parsed_data(self.parsed_data)]
  /\ UNCHANGED <<PDF_SUPPORT, document, self, output_file>>

\* parser.save_to_json(output_path)
SaveToJson(wcond) ==
  LET r == save_to_json(self, wcond, output_file)
  IN /\ Running
     /\ output_file' = r.file
     /\ last' = [op |-> "save_to_json", raised |-> r.raised, wcond |-> wcond]
     /\ UNCHANGED <<PDF_SUPPORT, document, self>>

\* parser.export_to_json(output_path)
ExportToJson(wcond) ==
  LET r == export_to_json(self, wcond, output_file)
  IN /\ Running
     /\ output_file' = r.file
     /\ last' = [op |-> "export_to_json", raised |-> r.raised, wcond |-> wcond]
     /\ UNCHANGED <<PDF_SUPPORT, document, self>>

\* the script: exit(main()) at the start of the process; the parser main()
\* builds is local to the run
Main(cond, now, wcond) ==
  LET r == main(PDF_SUPPORT, cond, document, now, wcond, output_file)
  IN /\ last.op = "__init__"
     /\ output_file' = r.file
     /\ last' = [op |-> "main", raised |-> "none", cond |-> cond, wcond |-> wcond,
                 val |-> r.status, extracted_data |-> r.extracted_data]
     /\ UNCHANGED <<PDF_SUPPORT, document, self>>

Next ==
  \/ \E cond \in FileConditions : ReadDocument(cond)
  \/ \E cond \in FileConditions, now \in 1..MaxClock : Parse(cond, now)
  \/ ValidateParsedData
  \/ \E wcond \in WriteConditions : SaveToJson(wcond)
  \/ \E wcond \in WriteConditions : ExportToJson(wcond)
  \/ \E cond \in FileConditions, now \in 1..MaxClock, wcond \in WriteConditions :
       Main(cond, now, wcond)

Spec == Init /\ [][Next]_vars


(***************************************************************************)
(* Properties                                                              *)
(***************************************************************************)
\* the acquisition of the text by the call recorded in last fails: what
\* extract_text_from_file raises for the instance's file and the condition
\* the call met
AcquisitionFails ==
  extract_text_from_file(self.file_path, PDF_SUPPORT, last.cond, document).raised # "none"

\* the same for the parser main() builds, whose file is a PDF
MainAcquisitionFails ==
  extract_text_from_file(".pdf", PDF_SUPPORT, last.cond, document).raised # "none"

\* C1: parse() never raises; when the acquisition of the text fails, whatever
\* the error, the record it returns has the thirteen scalar fields and
\* parsed_at absent; when the acquisition succeeds the record carries a
\* timestamp in parsed_at
C1_ParseOutcomeFollowsAcquisition ==
  last.op = "parse" =>
    /\ last.raised = "none"
    /\ DOMAIN last.val = FieldKeys
    /\ AcquisitionFails =>
         \A k \in ScalarFields \cup {"parsed_at"} : last.val[k] = None
    /\ ~AcquisitionFails =>
         /\ last.val["parsed_at"] \in {Some(now) : now \in 1..MaxClock}
         /\ \A k \in FieldKeys \ {"parsed_at"} : last.val[k] = document.fields[k]

\* a parse whose acquisition fails on an instance that parsed the document
\* before: the record returned is all absent although a full record exists
C1_FailedParseAfterSuccess ==
  /\ last.op = "parse"
  /\ AcquisitionFails
  /\ last.cond = "denied"
  /\ self.parsed_data # EmptyDict
  /\ self.parsed_data["policy_number"] # None
  /\ last.val["policy_number"] = None

\* C2: when the acquisition fails, the record parse() returns has
\* coverage_details equal to the empty sequence, so coverage_details is a
\* sequence in every record parse() returns
C2_CoverageDetailsAlwaysSequence ==
  last.op = "parse" =>
    /\ last.val["coverage_details"] # None
    /\ AcquisitionFails => last.val["coverage_details"] = Some(<<>>)

FinancialFields == {"premium", "coverage_amount", "total_premium"}

\* C3: validate_parsed_data() reports has_financial_data exactly when one of
\* premium, coverage_amount, total_premium is present in the working record,
\* whatever string the present value is
C3_FinancialDataIffPresent ==
  last.op = "validate_parsed_data" =>
    (last.val.has_financial_data
       <=> \E k \in FinancialFields : Get(self.parsed_data, k) # None)

NoFlagSet(flags) ==
  /\ ~flags.has_policy_number
  /\ ~flags.has_policyholder
  /\ ~flags.has_dates
  /\ ~flags.has_financial_data
  /\ ~flags.is_complete

\* C4: validate_parsed_data() reports is_complete exactly when policy_number
\* and policyholder are present, both dates are present and
\* has_financial_data is set; and called before any parse or right after a
\* parse whose acquisition failed it reports the five flags false
C4_CompleteIffFourFlags ==
  [][last'.op = "validate_parsed_data" =>
       /\ last'.val.has_dates
            <=> /\ Get(self.parsed_data, "effective_date") # None
                /\ Get(self.parsed_data, "expiration_date") # None
       /\ last'.val.is_complete
            <=> /\ Get(self.parsed_data, "policy_number") # None
                /\ Get(self.parsed_data, "policyholder") # None
                /\ last'.val.has_dates
                /\ last'.val.has_financial_data
       /\ (last.op = "__init__" \/ (last.op = "parse" /\ AcquisitionFails))
            => NoFlagSet(last'.val)]_vars

\* C5: main() exits with 0 exactly when the save succeeded, whether or not
\* the document could be read; save_to_json and export_to_json raise exactly
\* when the output file cannot be written
C5_ParsingSilentSavingLoud ==
  /\ last.op = "main" =>
       /\ last.raised = "none"
       /\ last.val = 0 <=> last.wcond = "writable"
  /\ last.op \in {"save_to_json", "export_to_json"} =>
       (last.raised # "none" <=> last.wcond # "writable")

\* a run of main() that could not read its document, saved and exited with 0
C5_UnreadableDocumentExitsZero ==
  /\ last.op = "main"
  /\ MainAcquisitionFails
  /\ last.cond = "missing"
  /\ last.val = 0
  /\ output_file # None

\* a non-empty run of digits, optionally followed by "." and two digits
PlainDecimal(s) ==
  \E n \in 1..Len(s) :
    /\ \A i \in 1..n : s[i] \in Digits
    /\ \/ Len(s) = n
       \/ /\ Len(s) = n + 3
          /\ s[n + 1] = "."
          /\ s[n + 2] \in Digits
          /\ s[n + 3] \in Digits

\* C6: each numeric field of a record parse() extracted is absent or a plain
\* decimal number, never the empty string
C6_NumericFieldsPlainDecimal ==
  last.op = "parse" /\ ~AcquisitionFails =>
    \A f \in NumericFields :
      last.val[f] = None \/ PlainDecimal(last.val[f][1])

DashLine(line) == StrStrip(line) # <<>> /\ Head(StrStrip(line)) = "-"

\* the lines of the section after the "Coverage Details:" header, up to the
\* next blank line or the end of the text, that begin with a dash, without
\* the dash and the whitespace around the item
DashItemsOf(text) ==
  LET header == Search(text, Lit(<<"c","o","v","e","r","a","g","e"," ","d","e","t","a","i","l","s",":">>))
      rest == SubSeq(text, header.end, Len(text))
      blank == Min({i \in 1..(Len(rest) + 1) :
                      \/ i = Len(rest) + 1
                      \/ i < Len(rest) /\ rest[i] = "\n" /\ rest[i + 1] = "\n"})
      lines == SelectSeq(StrSplitOn(SubSeq(rest, 1, blank - 1), "\n"), DashLine)
  IN IF header.ok
     THEN [k \in 1..Len(lines) |-> StrStrip(Tail(StrStrip(lines[k])))]
     ELSE <<>>

DashItems == [d \in Docs |-> DashItemsOf(d)]

\* C7: the coverage details of a record parse() extracted are exactly, in
\* order, the lines of the "Coverage Details:" section that begin with a
\* dash, without the dash and the whitespace around the item
C7_CoverageDetailsAreDashLines ==
  last.op = "parse" /\ ~AcquisitionFails =>
    last.val["coverage_details"] = Some(DashItems[document.text])

DateFields == {"effective_date", "expiration_date"}

\* what the unit of field f makes of the leftmost match of its k-th pattern
FromPattern(text, f, k) ==
  LET captured == Group1(text, re_search[text][f][k])
      value == StrStrip(IF f \in NumericFields
                        THEN StrReplace(captured, ",", <<>>) ELSE captured)
  IN IF Groups(Patterns[f][k]) < 1 \/ (f \in DateFields \cup {"payment_frequency"} /\ value = <<>>)
     THEN None
     ELSE IF f \in DateFields THEN Some(StrReplace(value, "-", <<"/">>))
     ELSE IF f = "payment_frequency" THEN Some(StrLower(value))
     ELSE Some(value)

\* the patterns of field f that match somewhere in the text
Matching(text, f) == {k \in 1..Len(Patterns[f]) : re_search[text][f][k].ok}

\* C8: the value of every scalar field of a record parse() extracted comes
\* from the leftmost match of the lowest-indexed pattern of the field's list
\* that matches the normalized text, wherever later patterns match
C8_FirstMatchingPatternWins ==
  last.op = "parse" /\ ~AcquisitionFails =>
    \A f \in ScalarFields :
      Matching(self.normalized_text, f) # {} =>
        last.val[f] = FromPattern(self.normalized_text, f,
                                  Min(Matching(self.normalized_text, f)))

\* a parse of a text in which the second premium pattern matches before the
\* first one does and captures another amount: the first pattern's amount
\* is the premium
C8_LaterPatternMatchesEarlierInText ==
  /\ last.op = "parse"
  /\ ~AcquisitionFails
  /\ Matching(self.normalized_text, "premium") = {1, 2}
  /\ re_search[self.normalized_text]["premium"][2].start
       < re_search[self.normalized_text]["premium"][1].start
  /\ FromPattern(self.normalized_text, "premium", 1)
       # FromPattern(self.normalized_text, "premium", 2)
  /\ last.val["premium"] = FromPattern(self.normalized_text, "premium", 1)

\* C9: a scalar field of a record parse() extracted is absent exactly when no
\* pattern of the field's list matches the normalized text
C9_AbsentIffNoPatternMatches ==
  last.op = "parse" /\ ~AcquisitionFails =>
    \A f \in ScalarFields :
      last.val[f] = None <=> Matching(self.normalized_text, f) = {}

\* C10: after parse() the working record is the record parse() returned, with
\* the fifteen keys; what main() saves is the record parse() returned to it
C10_WorkingRecordIsReturnedRecord ==
  /\ last.op = "parse" =>
       /\ self.parsed_data = last.val
       /\ DOMAIN self.parsed_data = FieldKeys
  /\ last.op = "main" /\ last.wcond = "writable" =>
       output_file = Some(last.extracted_data)
====
